---- MODULE Spec2Model ----
(***************************************************************************)
(* Resilience & consistency toolkit of the microService repository:        *)
(* the idempotency middleware over the Redis cache package, the Saga       *)
(* transaction coordinator and the TransferService built on it, the        *)
(* circuit breaker, the token bucket rate limiter, and the cron service's  *)
(* executeJob under its distributed lock.                                  *)
(***************************************************************************)
EXTENDS Integers, Sequences, FiniteSets

(***************************************************************************)
(* Bounds of the model                                                     *)
(***************************************************************************)
NumRequests == 2      \* HTTP requests passing through IdempotentMiddleware
MaxAdvances == 1      \* number of times the clock is advanced
MaxSteps == 3         \* steps added to one Saga
MaxExecutes == 2      \* calls of Execute on one Saga instance
MaxTransfers == 2     \* calls of TransferService.Transfer
NumThreads == 2       \* goroutines calling CircuitBreaker.Call
MaxCalls == 4         \* calls of CircuitBreaker.Call
MaxTicks == 3         \* ticks of the circuit breaker's clock
NumInstances == 2     \* service instances sharing one token bucket key
MaxAllows == 4        \* calls of TokenBucket.Allow
MaxCapacity == 2      \* largest capacity given to NewTokenBucket
MaxBucketTicks == 2   \* number of times the token bucket's clock advances
NumRuns == 3          \* invocations of executeJob, on any instance
MaxCronTicks == 2     \* number of times the cron service's clock advances

(***************************************************************************)
(* Program constants                                                       *)
(***************************************************************************)
LockTTL == 30         \* 30*time.Second, in seconds
RecordTTL == 86400    \* 24*time.Hour, in seconds

StatusBadRequest == 400
StatusConflict == 409
StatusTooManyRequests == 429

SuccessesToClose == 2  \* successes record() needs in HalfOpen to close
BucketTTL == 3600      \* EXPIRE key 3600, in seconds
CronLockTTL == 300     \* 5*time.Minute, in seconds

Nil == "nil"                \* the nil error of a Do or a Compensate
NoReturn == <<"none">>      \* Execute has not returned
ReturnedNil == <<"nil">>    \* Execute returned nil

Requests == 1..NumRequests
Keys == {"k1", "k2"}                 \* non-empty X-Idempotent-Key values
Headers == Keys \cup {""}            \* c.GetHeader returns "" when absent
Methods == {"GET", "HEAD", "POST"}
HandlerStatuses == {200, 500}         \* c.Writer.Status() after c.Next()
TimeSteps == {1, LockTTL, RecordTTL}      \* seconds by which the clock advances
Threads == 1..NumThreads
StateClosed == "closed"              \* iota 0
StateOpen == "open"                  \* iota 1
StateHalfOpen == "halfOpen"          \* iota 2
ErrCircuitOpen == "circuit breaker is open"
Thresholds == {1, 2}                 \* failureThreshold given to the constructor
Timeouts == {1, 2}                   \* timeout given to the constructor, in ticks
FnErrs == {"f1"}                     \* errors fn may return
Instances == 1..NumInstances
Capacities == 1..MaxCapacity         \* capacity given to NewTokenBucket
Rates == {1, 2}                      \* rate given to NewTokenBucket
SlowRates == {0, 1}                  \* rates below capacity / 3600 s, and 1
StoreErr == "store unavailable"      \* the error of a failed Redis call
Absent == <<>>                       \* HMGET finds no hash under the key
SlotsPerSecond == 2                  \* the clock counts half seconds
BucketSteps == {1, BucketTTL * SlotsPerSecond}  \* slots by which time advances
Accounts == {"A", "B"}               \* accounts of the TransferService
Amounts == {1, 2}                    \* amount of a transfer, in whole units
StoreOps == {"exists", "lock", "set"}  \* the middleware's store round trips
Runs == 1..NumRuns
JobNames == {"clean_expired_data", "health_check"}  \* names of cron jobs
CronSteps == {1, CronLockTTL}        \* seconds by which the cron clock advances

VARIABLES
    pc,             \* position of each request in the middleware
    ikey,           \* idempotentKey of each request ("" until read)
    hstatus,        \* status the handler wrote (0: handler has not returned)
    resp,           \* status the request ended with (0: not ended)
    retainedUntil,  \* expiry of the record the request wrote (0: none)
    seenDone,       \* requests that had returned when this one arrived
    seenRunning,    \* requests inside the handler when this one arrived
    store,          \* Redis: key -> expiry time (0: key absent)
    now,            \* clock, seconds
    advances,       \* number of clock advances so far
    storeFailure,   \* store round trips of each request that failed
    sagaPc,         \* "pending" | "running" | "compensating" | "returned"
    steps,          \* Saga.steps: the Name of each step
    executedSteps,  \* Saga.executedSteps: indexes (from 0) into steps
    ranged,         \* the slice Execute's range loop iterates over
    i,              \* index of Execute's loop
    j,              \* index of compensate's loop
    doErr,          \* the error the failing Do returned
    result,         \* what the last Execute call returned
    executes,       \* number of Execute calls so far
    doLog,          \* Do invocations of the current Execute call
    compLog,        \* steps whose Compensate the current Execute call invoked
    printed,        \* failed compensations the current Execute call printed
    balance,        \* balance of each account
    fromAccount,    \* Transfer's fromAccount ("" outside a transfer)
    toAccount,      \* Transfer's toAccount
    amount,         \* Transfer's amount
    transfers,      \* number of Transfer calls so far
    balanceBefore,  \* the balances when the current Transfer was called
    state,          \* CircuitBreaker.state ("none": no breaker built yet)
    failureCount,   \* CircuitBreaker.failureCount
    successCount,   \* CircuitBreaker.successCount
    failureThreshold, \* CircuitBreaker.failureThreshold
    timeout,        \* CircuitBreaker.timeout, in ticks
    openTime,       \* CircuitBreaker.openTime
    clock,          \* time.Now(), in ticks
    tpc,            \* position of each goroutine inside Call
    allowed,        \* what allow() returned to the goroutine's current call
    admittedIn,     \* the state allow() left when it admitted the current call
    invoked,        \* whether the goroutine's current call invoked fn
    fnErr,          \* what fn returned to the goroutine's current call
    callRet,        \* what the goroutine's last Call returned
    calls,          \* number of Call calls so far
    streak,         \* failures recorded since the last recorded success
    hoSuccesses,    \* successes recorded since HalfOpen was entered
    probes,         \* calls admitted since HalfOpen was entered
    tripped,        \* the state and successCount the breaker last opened from
    capacity,       \* TokenBucket.capacity (0: no bucket built yet)
    rate,           \* TokenBucket.rate, tokens per second
    bucket,         \* Redis hash of the key: <<tokens, last_time>>, or Absent
    bucketExpiry,   \* server time at which the key expires (0: no expiry)
    burstLog,       \* time and outcome of each call of a lone sequential caller
    serverTime,     \* time of the Redis server, in slots since the epoch
    apc,            \* position of each instance inside Allow
    anow,           \* the now the instance's current Allow read
    aret,           \* what the instance's last Allow returned
    evalErr,        \* the err Eval returned to the instance's current Allow
    allows,         \* number of Allow calls so far
    bucketTicks,    \* number of advances of the token bucket's clock
    winTokens,      \* whole tokens when the current run of same-now calls began
    winAdmitted,    \* calls admitted in the current run of same-now calls
    jobPc,          \* position of each run inside executeJob
    jobName,        \* the jobName of each run ("" until triggered)
    cronStore,      \* Redis: cron lock key -> expiry time (0: key absent)
    cronNow,        \* clock of the cron service, seconds
    cronTicks       \* number of advances of the cron clock

idemVars == <<pc, ikey, hstatus, resp, retainedUntil, seenDone, seenRunning,
              store, now, advances>>
xferVars == <<balance, fromAccount, toAccount, amount, transfers,
              balanceBefore>>
sagaVars == <<sagaPc, steps, executedSteps, ranged, i, j, doErr, result,
              executes, doLog, compLog, printed, xferVars>>
cbVars == <<state, failureCount, successCount, failureThreshold, timeout,
            openTime, clock, tpc, allowed, admittedIn, invoked, fnErr, callRet, calls,
            streak, hoSuccesses, probes, tripped>>
tbVars == <<capacity, rate, bucket, bucketExpiry, burstLog, serverTime, apc, anow,
            aret, evalErr, allows, bucketTicks, winTokens, winAdmitted>>
faultVars == <<storeFailure>>
cronVars == <<jobPc, jobName, cronStore, cronNow, cronTicks>>
vars == <<idemVars, faultVars, sagaVars, cbVars, tbVars, cronVars>>

(***************************************************************************)
(* Redis keys built by the middleware                                      *)
(***************************************************************************)
redisKey(k) == <<"idempotent:", k>>
lockKey(k) == <<"lock:", k>>
\* fmt.Sprintf("cron:lock:%s", jobName)
cronLockKey(name) == <<"cron:lock:", name>>
CronKeys == {cronLockKey(name) : name \in JobNames}
StoreKeys == {redisKey(k) : k \in Keys} \cup {lockKey(k) : k \in Keys}

(***************************************************************************)
(* cache package: a key is present until its expiry time is reached.       *)
(* The stored values ("locked", "1") are never read and are not kept.      *)
(***************************************************************************)
CacheExists(s, t, key) == IF s[key] > t THEN 1 ELSE 0

\* SET key NX EX expiration: TRUE when the key was absent and is now set
CacheLockOk(s, t, key) == ~(s[key] > t)

\* Variant of CacheLock whose key outlives the expiration asked for
CacheLockOutlives(s, t, key, expiration) ==
    IF CacheLockOk(s, t, key)
      THEN [s EXCEPT ![key] = t + expiration + RecordTTL] ELSE s

CacheLock(s, t, key, expiration) ==
    IF CacheLockOk(s, t, key) THEN [s EXCEPT ![key] = t + expiration] ELSE s

CacheSet(s, t, key, expiration) == [s EXCEPT ![key] = t + expiration]

CacheUnlock(s, key) == [s EXCEPT ![key] = 0]

\* c.Writer.Status() >= 200 && c.Writer.Status() < 300
Is2xx(status) == status >= 200 /\ status < 300

(***************************************************************************)
(* IdempotentMiddleware, one action per store round trip                   *)
(***************************************************************************)
\* Method test, header test and the cache.Exists lookup.  Requests are
\* numbered in their order of arrival.
Arrive(r, method, header) ==
    /\ pc[r] = "new"
    /\ \A q \in Requests : q < r => pc[q] # "new"
    /\ seenDone' = [seenDone EXCEPT ![r] = {q \in Requests : pc[q] = "done"}]
    /\ seenRunning' =
         [seenRunning EXCEPT ![r] = {q \in Requests : pc[q] = "running"}]
    /\ IF method \in {"GET", "HEAD"}
         THEN /\ pc' = [pc EXCEPT ![r] = "plain"]
              /\ UNCHANGED <<ikey, resp>>
         ELSE IF header = ""
           THEN /\ pc' = [pc EXCEPT ![r] = "done"]
                /\ resp' = [resp EXCEPT ![r] = StatusBadRequest]
                /\ UNCHANGED ikey
           ELSE /\ ikey' = [ikey EXCEPT ![r] = header]
                /\ IF CacheExists(store, now, redisKey(header)) > 0
                     THEN /\ pc' = [pc EXCEPT ![r] = "done"]
                          /\ resp' = [resp EXCEPT ![r] = StatusConflict]
                     ELSE /\ pc' = [pc EXCEPT ![r] = "lock"]
                          /\ UNCHANGED resp
    /\ UNCHANGED <<hstatus, retainedUntil, store, now, advances>>
    /\ UNCHANGED <<faultVars, sagaVars, cbVars, tbVars, cronVars>>

\* GET / HEAD: c.Next() without any guard
PlainReturn(r, status) ==
    /\ pc[r] = "plain"
    /\ pc' = [pc EXCEPT ![r] = "done"]
    /\ hstatus' = [hstatus EXCEPT ![r] = status]
    /\ resp' = [resp EXCEPT ![r] = status]
    /\ UNCHANGED <<ikey, retainedUntil, seenDone, seenRunning, store, now,
                   advances>>
    /\ UNCHANGED <<faultVars, sagaVars, cbVars, tbVars, cronVars>>

\* Variant of LockStep whose deferred Unlock also runs when the lock was
\* not acquired
LockStepUnlocksOnReject(r) ==
    /\ pc[r] = "lock"
    /\ IF CacheLockOk(store, now, lockKey(ikey[r]))
         THEN /\ store' = CacheLock(store, now, lockKey(ikey[r]), LockTTL)
              /\ pc' = [pc EXCEPT ![r] = "running"]
              /\ UNCHANGED resp
         ELSE /\ pc' = [pc EXCEPT ![r] = "done"]
              /\ resp' = [resp EXCEPT ![r] = StatusTooManyRequests]
              /\ store' = CacheUnlock(store, lockKey(ikey[r]))
    /\ UNCHANGED <<ikey, hstatus, retainedUntil, seenDone, seenRunning, now,
                   advances>>
    /\ UNCHANGED <<faultVars, sagaVars, cbVars, tbVars, cronVars>>

\* cache.Lock(ctx, lockKey, 30*time.Second); on success the handler is entered
LockStep(r) ==
    /\ pc[r] = "lock"
    /\ IF CacheLockOk(store, now, lockKey(ikey[r]))
         THEN /\ store' = CacheLock(store, now, lockKey(ikey[r]), LockTTL)
              /\ pc' = [pc EXCEPT ![r] = "running"]
              /\ UNCHANGED resp
         ELSE /\ pc' = [pc EXCEPT ![r] = "done"]
              /\ resp' = [resp EXCEPT ![r] = StatusTooManyRequests]
              /\ UNCHANGED store
    /\ UNCHANGED <<ikey, hstatus, retainedUntil, seenDone, seenRunning, now,
                   advances>>
    /\ UNCHANGED <<faultVars, sagaVars, cbVars, tbVars, cronVars>>

\* Variant of HandlerReturn that marks the key whatever the status
HandlerReturnAlwaysMarks(r, status) ==
    /\ pc[r] = "running"
    /\ hstatus' = [hstatus EXCEPT ![r] = status]
    /\ pc' = [pc EXCEPT ![r] = "set"]
    /\ UNCHANGED <<ikey, resp, retainedUntil, seenDone, seenRunning, store,
                   now, advances>>
    /\ UNCHANGED <<faultVars, sagaVars, cbVars, tbVars, cronVars>>

\* Variant of HandlerReturn that never calls cache.Set
HandlerReturnSkipsSet(r, status) ==
    /\ pc[r] = "running"
    /\ hstatus' = [hstatus EXCEPT ![r] = status]
    /\ pc' = [pc EXCEPT ![r] = "unlock"]
    /\ UNCHANGED <<ikey, resp, retainedUntil, seenDone, seenRunning, store,
                   now, advances>>
    /\ UNCHANGED <<faultVars, sagaVars, cbVars, tbVars, cronVars>>

\* c.Next() returns; the status test chooses whether cache.Set is called
HandlerReturn(r, status) ==
    /\ pc[r] = "running"
    /\ hstatus' = [hstatus EXCEPT ![r] = status]
    /\ pc' = [pc EXCEPT ![r] = IF Is2xx(status) THEN "set" ELSE "unlock"]
    /\ UNCHANGED <<ikey, resp, retainedUntil, seenDone, seenRunning, store,
                   now, advances>>
    /\ UNCHANGED <<faultVars, sagaVars, cbVars, tbVars, cronVars>>

\* Variant of SetStep that keeps the record only as long as the lock
SetStepLockTTL(r) ==
    /\ pc[r] = "set"
    /\ store' = CacheSet(store, now, redisKey(ikey[r]), LockTTL)
    /\ retainedUntil' = [retainedUntil EXCEPT ![r] = now + RecordTTL]
    /\ pc' = [pc EXCEPT ![r] = "unlock"]
    /\ UNCHANGED <<ikey, hstatus, resp, seenDone, seenRunning, now, advances>>
    /\ UNCHANGED <<faultVars, sagaVars, cbVars, tbVars, cronVars>>

\* cache.Set(ctx, redisKey, "1", 24*time.Hour)
SetStep(r) ==
    /\ pc[r] = "set"
    /\ store' = CacheSet(store, now, redisKey(ikey[r]), RecordTTL)
    /\ retainedUntil' = [retainedUntil EXCEPT ![r] = now + RecordTTL]
    /\ pc' = [pc EXCEPT ![r] = "unlock"]
    /\ UNCHANGED <<ikey, hstatus, resp, seenDone, seenRunning, now, advances>>
    /\ UNCHANGED <<faultVars, sagaVars, cbVars, tbVars, cronVars>>

\* Variant of UnlockStep that writes the completion record on every return
UnlockStepMarks(r) ==
    /\ pc[r] = "unlock"
    /\ store' = CacheSet(CacheUnlock(store, lockKey(ikey[r])), now,
                         redisKey(ikey[r]), RecordTTL)
    /\ pc' = [pc EXCEPT ![r] = "done"]
    /\ resp' = [resp EXCEPT ![r] = hstatus[r]]
    /\ UNCHANGED <<ikey, hstatus, retainedUntil, seenDone, seenRunning, now,
                   advances>>
    /\ UNCHANGED <<faultVars, sagaVars, cbVars, tbVars, cronVars>>

\* Variant of UnlockStep that returns without deleting the lock key
UnlockStepKeepsLock(r) ==
    /\ pc[r] = "unlock"
    /\ pc' = [pc EXCEPT ![r] = "done"]
    /\ resp' = [resp EXCEPT ![r] = hstatus[r]]
    /\ UNCHANGED <<ikey, hstatus, retainedUntil, seenDone, seenRunning, store,
                   now, advances>>
    /\ UNCHANGED <<faultVars, sagaVars, cbVars, tbVars, cronVars>>

\* defer cache.Unlock(ctx, lockKey)
UnlockStep(r) ==
    /\ pc[r] = "unlock"
    /\ store' = CacheUnlock(store, lockKey(ikey[r]))
    /\ pc' = [pc EXCEPT ![r] = "done"]
    /\ resp' = [resp EXCEPT ![r] = hstatus[r]]
    /\ UNCHANGED <<ikey, hstatus, retainedUntil, seenDone, seenRunning, now,
                   advances>>
    /\ UNCHANGED <<faultVars, sagaVars, cbVars, tbVars, cronVars>>

\* Time passes
Advance(d) ==
    /\ advances < MaxAdvances
    /\ now' = now + d
    /\ advances' = advances + 1
    /\ UNCHANGED <<pc, ikey, hstatus, resp, retainedUntil, seenDone,
                   seenRunning, store>>
    /\ UNCHANGED <<faultVars, sagaVars, cbVars, tbVars, cronVars>>

\* The process dies while the request holds the lock: the deferred Unlock
\* and whatever else was left of the middleware never run
Crash(r) ==
    /\ pc[r] \in {"running", "set", "unlock"}
    /\ pc' = [pc EXCEPT ![r] = "crashed"]
    /\ UNCHANGED <<ikey, hstatus, resp, retainedUntil, seenDone, seenRunning,
                   store, now, advances>>
    /\ UNCHANGED <<faultVars, sagaVars, cbVars, tbVars, cronVars>>

\* cache.Exists returns an error: exists, _ := ... leaves exists = 0 and the
\* error unread, so the middleware goes on to the lock
ArriveExistsFails(r, header) ==
    /\ pc[r] = "new"
    /\ \A q \in Requests : q < r => pc[q] # "new"
    /\ header # ""
    /\ seenDone' = [seenDone EXCEPT ![r] = {q \in Requests : pc[q] = "done"}]
    /\ seenRunning' =
         [seenRunning EXCEPT ![r] = {q \in Requests : pc[q] = "running"}]
    /\ ikey' = [ikey EXCEPT ![r] = header]
    /\ pc' = [pc EXCEPT ![r] = "lock"]
    /\ storeFailure' = [storeFailure EXCEPT ![r] = @ \cup {"exists"}]
    /\ UNCHANGED <<hstatus, resp, retainedUntil, store, now, advances>>
    /\ UNCHANGED <<sagaVars, cbVars, tbVars, cronVars>>

\* cache.Lock returns an error: err != nil || !locked answers 429
LockStepFails(r) ==
    /\ pc[r] = "lock"
    /\ pc' = [pc EXCEPT ![r] = "done"]
    /\ resp' = [resp EXCEPT ![r] = StatusTooManyRequests]
    /\ storeFailure' = [storeFailure EXCEPT ![r] = @ \cup {"lock"}]
    /\ UNCHANGED <<ikey, hstatus, retainedUntil, seenDone, seenRunning, store,
                   now, advances>>
    /\ UNCHANGED <<sagaVars, cbVars, tbVars, cronVars>>

\* cache.Set returns an error: _ = cache.Set(...) drops it
SetStepFails(r) ==
    /\ pc[r] = "set"
    /\ pc' = [pc EXCEPT ![r] = "unlock"]
    /\ storeFailure' = [storeFailure EXCEPT ![r] = @ \cup {"set"}]
    /\ UNCHANGED <<ikey, hstatus, resp, retainedUntil, seenDone, seenRunning,
                   store, now, advances>>
    /\ UNCHANGED <<sagaVars, cbVars, tbVars, cronVars>>

Init ==
    /\ pc = [r \in Requests |-> "new"]
    /\ ikey = [r \in Requests |-> ""]
    /\ hstatus = [r \in Requests |-> 0]
    /\ resp = [r \in Requests |-> 0]
    /\ retainedUntil = [r \in Requests |-> 0]
    /\ seenDone = [r \in Requests |-> {}]
    /\ seenRunning = [r \in Requests |-> {}]
    /\ store = [k \in StoreKeys |-> 0]
    /\ now = 0
    /\ advances = 0
    /\ storeFailure = [r \in Requests |-> {}]
    /\ sagaPc = "pending"
    /\ steps = <<>>
    /\ executedSteps = <<>>
    /\ ranged = <<>>
    /\ i = 0
    /\ j = 0
    /\ doErr = Nil
    /\ result = NoReturn
    /\ executes = 0
    /\ doLog = <<>>
    /\ compLog = <<>>
    /\ printed = {}
    /\ balance = [a \in Accounts |-> 0]
    /\ fromAccount = ""
    /\ toAccount = ""
    /\ amount = 0
    /\ transfers = 0
    /\ balanceBefore = [a \in Accounts |-> 0]
    /\ state = "none"
    /\ failureCount = 0
    /\ successCount = 0
    /\ failureThreshold = 0
    /\ timeout = 0
    /\ openTime = 0
    /\ clock = 0
    /\ tpc = [t \in Threads |-> "idle"]
    /\ allowed = [t \in Threads |-> "none"]
    /\ admittedIn = [t \in Threads |-> "none"]
    /\ invoked = [t \in Threads |-> FALSE]
    /\ fnErr = [t \in Threads |-> "none"]
    /\ callRet = [t \in Threads |-> "none"]
    /\ calls = 0
    /\ streak = 0
    /\ hoSuccesses = 0
    /\ probes = 0
    /\ tripped = <<"none", 0>>
    /\ capacity = 0
    /\ rate = 0
    /\ bucket = Absent
    /\ bucketExpiry = 0
    /\ burstLog = <<>>
    /\ serverTime = 0
    /\ apc = [c \in Instances |-> "idle"]
    /\ anow = [c \in Instances |-> 0]
    /\ aret = [c \in Instances |-> "none"]
    /\ evalErr = [c \in Instances |-> "none"]
    /\ allows = 0
    /\ bucketTicks = 0
    /\ winTokens = 0
    /\ winAdmitted = 0
    /\ jobPc = [x \in Runs |-> "idle"]
    /\ jobName = [x \in Runs |-> ""]
    /\ cronStore = [k \in CronKeys |-> 0]
    /\ cronNow = 0
    /\ cronTicks = 0

IdemNext ==
    \/ \E r \in Requests, m \in Methods, h \in Headers : Arrive(r, m, h)
    \/ \E r \in Requests, s \in HandlerStatuses : PlainReturn(r, s)
    \/ \E r \in Requests : LockStep(r)
    \/ \E r \in Requests, s \in HandlerStatuses : HandlerReturn(r, s)
    \/ \E r \in Requests : SetStep(r)
    \/ \E r \in Requests : UnlockStep(r)
    \/ \E d \in TimeSteps : Advance(d)

\* The middleware on a process that may die; every request is a POST that
\* carries a key, and the clock moves by a second or by the lock TTL
IdemCrashNext ==
    \/ \E r \in Requests, h \in Keys : Arrive(r, "POST", h)
    \/ \E r \in Requests : LockStep(r)
    \/ \E r \in Requests, s \in HandlerStatuses : HandlerReturn(r, s)
    \/ \E r \in Requests : SetStep(r)
    \/ \E r \in Requests : UnlockStep(r)
    \/ \E r \in Requests : Crash(r)
    \/ \E d \in {1, LockTTL} : Advance(d)

\* The middleware over a store whose calls may fail
IdemStoreNext ==
    \/ \E r \in Requests, m \in Methods, h \in Headers : Arrive(r, m, h)
    \/ \E r \in Requests, h \in Headers : ArriveExistsFails(r, h)
    \/ \E r \in Requests, s \in HandlerStatuses : PlainReturn(r, s)
    \/ \E r \in Requests : LockStep(r)
    \/ \E r \in Requests : LockStepFails(r)
    \/ \E r \in Requests, s \in HandlerStatuses : HandlerReturn(r, s)
    \/ \E r \in Requests : SetStep(r)
    \/ \E r \in Requests : SetStepFails(r)
    \/ \E r \in Requests : UnlockStep(r)
    \/ \E d \in TimeSteps : Advance(d)

(***************************************************************************)
(* Saga coordinator                                                        *)
(***************************************************************************)
StepNames == {"debit", "credit"}     \* Step.Name, not unique
DoErrs == {"e1", "e2"}               \* errors a Do may return
CompErrs == {"c1"}                   \* errors a Compensate may return

\* fmt.Errorf("... %s ...: %w", step.Name, err)
Errorf(name, err) == <<"error", name, err>>

\* the value is an error built by Errorf
IsError(e) == Len(e) = 3

\* the errors errors.Is / errors.Unwrap find in a returned error
ErrorChain(e) == IF IsError(e) THEN {e[3]} ELSE {}

(***************************************************************************)
(* TransferService: the accounts and the closures of Transfer's steps      *)
(***************************************************************************)
TransferSteps == <<"debitSource", "creditTarget", "logTransfer">>

\* debitAccount: takes amount from the account unless it fails
debitAccount(b, account, amt, err) ==
    IF err = Nil THEN [b EXCEPT ![account] = @ - amt] ELSE b

\* creditAccount: adds amount to the account unless it fails
creditAccount(b, account, amt, err) ==
    IF err = Nil THEN [b EXCEPT ![account] = @ + amt] ELSE b

\* step.Do(ctx): the Do closure of the step of that name, returning err;
\* the closures of steps added by AddStep touch no account
StepDo(name, b, err) ==
    CASE name = "debitSource" -> debitAccount(b, fromAccount, amount, err)
      [] name = "creditTarget" -> creditAccount(b, toAccount, amount, err)
      [] OTHER -> b

\* Variant of StepCompensate whose first closure debits the source again
StepCompensateDebitsAgain(name, b, err) ==
    CASE name = "debitSource" -> debitAccount(b, fromAccount, amount, err)
      [] name = "creditTarget" -> debitAccount(b, toAccount, amount, err)
      [] OTHER -> b

\* step.Compensate(ctx): the Compensate closure of the step of that name
StepCompensate(name, b, err) ==
    CASE name = "debitSource" -> creditAccount(b, fromAccount, amount, err)
      [] name = "creditTarget" -> debitAccount(b, toAccount, amount, err)
      [] OTHER -> b

\* s.steps = append(s.steps, step)
AddStep(name) ==
    /\ sagaPc \in {"pending", "returned"}
    /\ Len(steps) < MaxSteps
    /\ steps' = Append(steps, name)
    /\ UNCHANGED <<sagaPc, executedSteps, ranged, i, j, doErr, result,
                   executes, doLog, compLog, printed>>
    /\ UNCHANGED xferVars
    /\ UNCHANGED <<idemVars, faultVars, cbVars, tbVars, cronVars>>

\* Execute is entered: range evaluates s.steps once
ExecuteCall ==
    /\ sagaPc \in {"pending", "returned"}
    /\ executes < MaxExecutes
    /\ executes' = executes + 1
    /\ sagaPc' = "running"
    /\ ranged' = steps
    /\ i' = 0
    /\ result' = NoReturn
    /\ doLog' = <<>>
    /\ compLog' = <<>>
    /\ printed' = {}
    /\ UNCHANGED <<steps, executedSteps, j, doErr>>
    /\ UNCHANGED xferVars
    /\ UNCHANGED <<idemVars, faultVars, cbVars, tbVars, cronVars>>

\* Variant of DoStep that goes on to the next step when Do fails
DoStepSwallowsError(err) ==
    /\ sagaPc = "running"
    /\ i < Len(ranged)
    /\ doLog' = Append(doLog, [step |-> i, err |-> err])
    /\ executedSteps' = IF err = Nil THEN Append(executedSteps, i)
                                     ELSE executedSteps
    /\ i' = i + 1
    /\ UNCHANGED <<sagaPc, j, doErr>>
    /\ UNCHANGED <<steps, ranged, result, executes, compLog, printed>>
    /\ balance' = StepDo(ranged[i + 1], balance, err)
    /\ UNCHANGED <<fromAccount, toAccount, amount, transfers, balanceBefore>>
    /\ UNCHANGED <<idemVars, faultVars, cbVars, tbVars, cronVars>>

\* One iteration of Execute's loop: step.Do(ctx) returns err
DoStep(err) ==
    /\ sagaPc = "running"
    /\ i < Len(ranged)
    /\ doLog' = Append(doLog, [step |-> i, err |-> err])
    /\ IF err # Nil
         THEN /\ doErr' = err
              /\ sagaPc' = "compensating"
              /\ j' = Len(executedSteps) - 1
              /\ UNCHANGED <<executedSteps, i>>
         ELSE /\ executedSteps' = Append(executedSteps, i)
              /\ i' = i + 1
              /\ UNCHANGED <<sagaPc, j, doErr>>
    /\ UNCHANGED <<steps, ranged, result, executes, compLog, printed>>
    /\ balance' = StepDo(ranged[i + 1], balance, err)
    /\ UNCHANGED <<fromAccount, toAccount, amount, transfers, balanceBefore>>
    /\ UNCHANGED <<idemVars, faultVars, cbVars, tbVars, cronVars>>

\* The loop is over: return nil
ExecuteReturnNil ==
    /\ sagaPc = "running"
    /\ i = Len(ranged)
    /\ result' = ReturnedNil
    /\ sagaPc' = "returned"
    /\ UNCHANGED <<steps, executedSteps, ranged, i, j, doErr, executes,
                   doLog, compLog, printed>>
    /\ UNCHANGED xferVars
    /\ UNCHANGED <<idemVars, faultVars, cbVars, tbVars, cronVars>>

\* Variant of CompensateStep that walks executedSteps from the front
CompensateStepForward(err) ==
    /\ sagaPc = "compensating"
    /\ j >= 0
    /\ LET stepIndex == executedSteps[Len(executedSteps) - j]
            step == steps[stepIndex + 1]
       IN /\ compLog' = Append(compLog, stepIndex)
          /\ printed' = IF err # Nil
                          THEN printed \cup {[step |-> stepIndex,
                                              name |-> step,
                                              err |-> err]}
                          ELSE printed
    /\ j' = j - 1
    /\ UNCHANGED <<sagaPc, steps, executedSteps, ranged, i, doErr, result,
                   executes, doLog>>
    /\ balance' = StepCompensate(steps[executedSteps[Len(executedSteps) - j] + 1], balance, err)
    /\ UNCHANGED <<fromAccount, toAccount, amount, transfers, balanceBefore>>
    /\ UNCHANGED <<idemVars, faultVars, cbVars, tbVars, cronVars>>

\* Variant of CompensateStep that leaves the loop when Compensate fails
CompensateStepAborts(err) ==
    /\ sagaPc = "compensating"
    /\ j >= 0
    /\ LET stepIndex == executedSteps[j + 1]
            step == steps[stepIndex + 1]
       IN /\ compLog' = Append(compLog, stepIndex)
          /\ printed' = IF err # Nil
                          THEN printed \cup {[step |-> stepIndex,
                                              name |-> step,
                                              err |-> err]}
                          ELSE printed
    /\ j' = IF err # Nil THEN 0 - 1 ELSE j - 1
    /\ UNCHANGED <<sagaPc, steps, executedSteps, ranged, i, doErr, result,
                   executes, doLog>>
    /\ balance' = StepCompensate(steps[executedSteps[j + 1] + 1], balance, err)
    /\ UNCHANGED <<fromAccount, toAccount, amount, transfers, balanceBefore>>
    /\ UNCHANGED <<idemVars, faultVars, cbVars, tbVars, cronVars>>

\* One iteration of compensate's loop: step.Compensate(ctx) returns err
CompensateStep(err) ==
    /\ sagaPc = "compensating"
    /\ j >= 0
    /\ LET stepIndex == executedSteps[j + 1]
            step == steps[stepIndex + 1]
       IN /\ compLog' = Append(compLog, stepIndex)
          /\ printed' = IF err # Nil
                          THEN printed \cup {[step |-> stepIndex,
                                              name |-> step,
                                              err |-> err]}
                          ELSE printed
    /\ j' = j - 1
    /\ UNCHANGED <<sagaPc, steps, executedSteps, ranged, i, doErr, result,
                   executes, doLog>>
    /\ balance' = StepCompensate(steps[executedSteps[j + 1] + 1], balance, err)
    /\ UNCHANGED <<fromAccount, toAccount, amount, transfers, balanceBefore>>
    /\ UNCHANGED <<idemVars, faultVars, cbVars, tbVars, cronVars>>

\* Variant of ExecuteReturnErr without the return: the loop goes on
ExecuteNoReturn ==
    /\ sagaPc = "compensating"
    /\ j < 0
    /\ executedSteps' = Append(executedSteps, i)
    /\ i' = i + 1
    /\ sagaPc' = "running"
    /\ UNCHANGED <<steps, ranged, j, doErr, result, executes, doLog, compLog,
                   printed>>
    /\ UNCHANGED xferVars
    /\ UNCHANGED <<idemVars, faultVars, cbVars, tbVars, cronVars>>

\* Variant of ExecuteReturnErr that names the first step of the Saga
ExecuteReturnErrFirstStep ==
    /\ sagaPc = "compensating"
    /\ j < 0
    /\ result' = Errorf(ranged[1], doErr)
    /\ sagaPc' = "returned"
    /\ UNCHANGED <<steps, executedSteps, ranged, i, j, doErr, executes,
                   doLog, compLog, printed>>
    /\ UNCHANGED xferVars
    /\ UNCHANGED <<idemVars, faultVars, cbVars, tbVars, cronVars>>

\* compensate is over: return fmt.Errorf(..., step.Name, err)
ExecuteReturnErr ==
    /\ sagaPc = "compensating"
    /\ j < 0
    /\ result' = Errorf(ranged[i + 1], doErr)
    /\ sagaPc' = "returned"
    /\ UNCHANGED <<steps, executedSteps, ranged, i, j, doErr, executes,
                   doLog, compLog, printed>>
    /\ UNCHANGED xferVars
    /\ UNCHANGED <<idemVars, faultVars, cbVars, tbVars, cronVars>>

\* Transfer: NewSaga, the three AddStep calls, and the entry of Execute
Transfer(from, to, amt) ==
    /\ sagaPc \in {"pending", "returned"}
    /\ transfers < MaxTransfers
    /\ transfers' = transfers + 1
    /\ fromAccount' = from
    /\ toAccount' = to
    /\ amount' = amt
    /\ balanceBefore' = balance
    /\ steps' = TransferSteps
    /\ executedSteps' = <<>>
    /\ executes' = 1
    /\ sagaPc' = "running"
    /\ ranged' = TransferSteps
    /\ i' = 0
    /\ result' = NoReturn
    /\ doLog' = <<>>
    /\ compLog' = <<>>
    /\ printed' = {}
    /\ UNCHANGED <<j, doErr, balance>>
    /\ UNCHANGED <<idemVars, faultVars, cbVars, tbVars, cronVars>>

SagaNext ==
    \/ \E n \in StepNames : AddStep(n)
    \/ ExecuteCall
    \/ \E e \in DoErrs \cup {Nil} : DoStep(e)
    \/ ExecuteReturnNil
    \/ \E e \in CompErrs \cup {Nil} : CompensateStep(e)
    \/ ExecuteReturnErr

(***************************************************************************)
(* Circuit breaker                                                         *)
(***************************************************************************)
\* NewCircuitBreaker(failureThreshold, timeout)
NewCircuitBreaker(n, d) ==
    /\ state = "none"
    /\ state' = StateClosed
    /\ failureThreshold' = n
    /\ timeout' = d
    /\ UNCHANGED <<failureCount, successCount, openTime, clock, tpc, allowed,
                   admittedIn, invoked, fnErr, callRet, calls, streak,
                   hoSuccesses, probes, tripped>>
    /\ UNCHANGED <<idemVars, faultVars, sagaVars, tbVars, cronVars>>

\* time.Since(cb.openTime) > cb.timeout
Expired == clock - openTime > timeout

\* Variant of CallAllow in which Call goes on to fn when allow() said no
CallAllowIgnored(t) ==
    /\ state # "none"
    /\ tpc[t] = "idle"
    /\ calls < MaxCalls
    /\ calls' = calls + 1
    /\ invoked' = [invoked EXCEPT ![t] = FALSE]
    /\ fnErr' = [fnErr EXCEPT ![t] = "none"]
    /\ callRet' = [callRet EXCEPT ![t] = "none"]
    /\ IF state = StateOpen /\ Expired
         THEN /\ tpc' = [tpc EXCEPT ![t] = "upgrade"]
              /\ allowed' = [allowed EXCEPT ![t] = "none"]
         ELSE /\ tpc' = [tpc EXCEPT ![t] = "fn"]
              /\ allowed' = [allowed EXCEPT ![t] =
                                IF state = StateOpen THEN "no" ELSE "yes"]
    /\ admittedIn' = [admittedIn EXCEPT ![t] =
                         IF state = StateOpen THEN "none" ELSE state]
    /\ probes' = IF state = StateHalfOpen THEN probes + 1 ELSE probes
    /\ UNCHANGED <<state, failureCount, successCount, failureThreshold,
                   timeout, openTime, clock, streak, hoSuccesses, tripped>>
    /\ UNCHANGED <<idemVars, faultVars, sagaVars, tbVars, cronVars>>

\* Variant of CallAllow whose allow() keeps rejecting once the breaker is
\* Open, whatever time has passed
CallAllowNeverProbes(t) ==
    /\ state # "none"
    /\ tpc[t] = "idle"
    /\ calls < MaxCalls
    /\ calls' = calls + 1
    /\ invoked' = [invoked EXCEPT ![t] = FALSE]
    /\ fnErr' = [fnErr EXCEPT ![t] = "none"]
    /\ IF state = StateOpen
         THEN /\ tpc' = tpc
              /\ allowed' = [allowed EXCEPT ![t] = "no"]
              /\ callRet' = [callRet EXCEPT ![t] = ErrCircuitOpen]
         ELSE /\ tpc' = [tpc EXCEPT ![t] = "fn"]
              /\ allowed' = [allowed EXCEPT ![t] = "yes"]
              /\ callRet' = [callRet EXCEPT ![t] = "none"]
    /\ admittedIn' = [admittedIn EXCEPT ![t] =
                         IF state = StateOpen THEN "none" ELSE state]
    /\ probes' = IF state = StateHalfOpen THEN probes + 1 ELSE probes
    /\ UNCHANGED <<state, failureCount, successCount, failureThreshold,
                   timeout, openTime, clock, streak, hoSuccesses, tripped>>
    /\ UNCHANGED <<idemVars, faultVars, sagaVars, tbVars, cronVars>>

\* Call is entered and allow() reads the state under the read lock: it
\* returns true (Closed, HalfOpen), returns false and Call returns
\* ErrCircuitOpen (Open, not expired), or releases the read lock to take the
\* write lock (Open, expired)
CallAllow(t) ==
    /\ state # "none"
    /\ tpc[t] = "idle"
    /\ calls < MaxCalls
    /\ calls' = calls + 1
    /\ invoked' = [invoked EXCEPT ![t] = FALSE]
    /\ fnErr' = [fnErr EXCEPT ![t] = "none"]
    /\ IF state = StateOpen
         THEN IF Expired
                THEN /\ tpc' = [tpc EXCEPT ![t] = "upgrade"]
                     /\ allowed' = [allowed EXCEPT ![t] = "none"]
                     /\ callRet' = [callRet EXCEPT ![t] = "none"]
                ELSE /\ tpc' = tpc
                     /\ allowed' = [allowed EXCEPT ![t] = "no"]
                     /\ callRet' = [callRet EXCEPT ![t] = ErrCircuitOpen]
         ELSE /\ tpc' = [tpc EXCEPT ![t] = "fn"]
              /\ allowed' = [allowed EXCEPT ![t] = "yes"]
              /\ callRet' = [callRet EXCEPT ![t] = "none"]
    /\ admittedIn' = [admittedIn EXCEPT ![t] =
                         IF state = StateOpen THEN "none" ELSE state]
    /\ probes' = IF state = StateHalfOpen THEN probes + 1 ELSE probes
    /\ UNCHANGED <<state, failureCount, successCount, failureThreshold,
                   timeout, openTime, clock, streak, hoSuccesses, tripped>>
    /\ UNCHANGED <<idemVars, faultVars, sagaVars, tbVars, cronVars>>

\* allow() holds the write lock: state = HalfOpen, successCount = 0; it takes
\* the read lock again and returns true
AllowUpgrade(t) ==
    /\ tpc[t] = "upgrade"
    /\ state' = StateHalfOpen
    /\ successCount' = 0
    /\ tpc' = [tpc EXCEPT ![t] = "fn"]
    /\ allowed' = [allowed EXCEPT ![t] = "yes"]
    /\ admittedIn' = [admittedIn EXCEPT ![t] = StateHalfOpen]
    /\ hoSuccesses' = IF state = StateHalfOpen THEN hoSuccesses ELSE 0
    /\ probes' = IF state = StateHalfOpen THEN probes + 1 ELSE 1
    /\ UNCHANGED <<failureCount, failureThreshold, timeout, openTime, clock,
                   invoked, fnErr, callRet, calls, streak, tripped>>
    /\ UNCHANGED <<idemVars, faultVars, sagaVars, tbVars, cronVars>>

\* Variant of Record that opens from HalfOpen only at the failure threshold
RecordHalfOpenThreshold(t, err) ==
    /\ tpc[t] = "fn"
    /\ tpc' = [tpc EXCEPT ![t] = "idle"]
    /\ invoked' = [invoked EXCEPT ![t] = TRUE]
    /\ fnErr' = [fnErr EXCEPT ![t] = err]
    /\ callRet' = [callRet EXCEPT ![t] = err]
    /\ admittedIn' = [admittedIn EXCEPT ![t] = "none"]
    /\ IF err # Nil
         THEN /\ failureCount' = failureCount + 1
              /\ successCount' = 0
              /\ streak' = streak + 1
              /\ hoSuccesses' = 0
              /\ IF /\ state \in {StateClosed, StateHalfOpen}
                    /\ failureCount + 1 >= failureThreshold
                   THEN /\ state' = StateOpen
                        /\ openTime' = clock
                        /\ tripped' = <<state, successCount>>
                   ELSE UNCHANGED <<state, openTime, tripped>>
         ELSE /\ successCount' = successCount + 1
              /\ failureCount' = 0
              /\ streak' = 0
              /\ hoSuccesses' = IF state = StateHalfOpen
                                  THEN hoSuccesses + 1 ELSE hoSuccesses
              /\ state' = IF /\ state = StateHalfOpen
                             /\ successCount + 1 >= SuccessesToClose
                            THEN StateClosed ELSE state
              /\ UNCHANGED <<openTime, tripped>>
    /\ UNCHANGED <<failureThreshold, timeout, clock, allowed, calls, probes>>
    /\ UNCHANGED <<idemVars, faultVars, sagaVars, tbVars, cronVars>>

\* Variant of Record that opens one failure late and closes at the first
\* success
RecordOffByOne(t, err) ==
    /\ tpc[t] = "fn"
    /\ tpc' = [tpc EXCEPT ![t] = "idle"]
    /\ invoked' = [invoked EXCEPT ![t] = TRUE]
    /\ fnErr' = [fnErr EXCEPT ![t] = err]
    /\ callRet' = [callRet EXCEPT ![t] = err]
    /\ admittedIn' = [admittedIn EXCEPT ![t] = "none"]
    /\ IF err # Nil
         THEN /\ failureCount' = failureCount + 1
              /\ successCount' = 0
              /\ streak' = streak + 1
              /\ hoSuccesses' = 0
              /\ IF \/ state = StateClosed
                       /\ failureCount + 1 > failureThreshold
                    \/ state = StateHalfOpen
                   THEN /\ state' = StateOpen
                        /\ openTime' = clock
                        /\ tripped' = <<state, successCount>>
                   ELSE UNCHANGED <<state, openTime, tripped>>
         ELSE /\ successCount' = successCount + 1
              /\ failureCount' = 0
              /\ streak' = 0
              /\ hoSuccesses' = IF state = StateHalfOpen
                                  THEN hoSuccesses + 1 ELSE hoSuccesses
              /\ state' = IF state = StateHalfOpen THEN StateClosed ELSE state
              /\ UNCHANGED <<openTime, tripped>>
    /\ UNCHANGED <<failureThreshold, timeout, clock, allowed, calls, probes>>
    /\ UNCHANGED <<idemVars, faultVars, sagaVars, tbVars, cronVars>>

\* Variant of Record that leaves failureCount as it is on a success
RecordKeepsFailureCount(t, err) ==
    /\ tpc[t] = "fn"
    /\ tpc' = [tpc EXCEPT ![t] = "idle"]
    /\ invoked' = [invoked EXCEPT ![t] = TRUE]
    /\ fnErr' = [fnErr EXCEPT ![t] = err]
    /\ callRet' = [callRet EXCEPT ![t] = err]
    /\ admittedIn' = [admittedIn EXCEPT ![t] = "none"]
    /\ IF err # Nil
         THEN /\ failureCount' = failureCount + 1
              /\ successCount' = 0
              /\ streak' = streak + 1
              /\ hoSuccesses' = 0
              /\ IF \/ state = StateClosed
                       /\ failureCount + 1 >= failureThreshold
                    \/ state = StateHalfOpen
                   THEN /\ state' = StateOpen
                        /\ openTime' = clock
                        /\ tripped' = <<state, successCount>>
                   ELSE UNCHANGED <<state, openTime, tripped>>
         ELSE /\ successCount' = successCount + 1
              /\ failureCount' = failureCount
              /\ streak' = 0
              /\ hoSuccesses' = IF state = StateHalfOpen
                                  THEN hoSuccesses + 1 ELSE hoSuccesses
              /\ state' = IF /\ state = StateHalfOpen
                             /\ successCount + 1 >= SuccessesToClose
                            THEN StateClosed ELSE state
              /\ UNCHANGED <<openTime, tripped>>
    /\ UNCHANGED <<failureThreshold, timeout, clock, allowed, calls, probes>>
    /\ UNCHANGED <<idemVars, faultVars, sagaVars, tbVars, cronVars>>

\* fn() returns err, record(err) runs under the write lock, Call returns err
Record(t, err) ==
    /\ tpc[t] = "fn"
    /\ tpc' = [tpc EXCEPT ![t] = "idle"]
    /\ invoked' = [invoked EXCEPT ![t] = TRUE]
    /\ fnErr' = [fnErr EXCEPT ![t] = err]
    /\ callRet' = [callRet EXCEPT ![t] = err]
    /\ admittedIn' = [admittedIn EXCEPT ![t] = "none"]
    /\ IF err # Nil
         THEN /\ failureCount' = failureCount + 1
              /\ successCount' = 0
              /\ streak' = streak + 1
              /\ hoSuccesses' = 0
              /\ IF \/ state = StateClosed
                       /\ failureCount + 1 >= failureThreshold
                    \/ state = StateHalfOpen
                   THEN /\ state' = StateOpen
                        /\ openTime' = clock
                        /\ tripped' = <<state, successCount>>
                   ELSE UNCHANGED <<state, openTime, tripped>>
         ELSE /\ successCount' = successCount + 1
              /\ failureCount' = 0
              /\ streak' = 0
              /\ hoSuccesses' = IF state = StateHalfOpen
                                  THEN hoSuccesses + 1 ELSE hoSuccesses
              /\ state' = IF /\ state = StateHalfOpen
                             /\ successCount + 1 >= SuccessesToClose
                            THEN StateClosed ELSE state
              /\ UNCHANGED <<openTime, tripped>>
    /\ UNCHANGED <<failureThreshold, timeout, clock, allowed, calls, probes>>
    /\ UNCHANGED <<idemVars, faultVars, sagaVars, tbVars, cronVars>>

\* time passes
Tick ==
    /\ clock < MaxTicks
    /\ clock' = clock + 1
    /\ UNCHANGED <<state, failureCount, successCount, failureThreshold,
                   timeout, openTime, tpc, allowed, admittedIn, invoked,
                   fnErr, callRet, calls, streak, hoSuccesses, probes,
                   tripped>>
    /\ UNCHANGED <<idemVars, faultVars, sagaVars, tbVars, cronVars>>

CBNext ==
    \/ \E n \in Thresholds, d \in Timeouts : NewCircuitBreaker(n, d)
    \/ \E t \in Threads : CallAllow(t)
    \/ \E t \in Threads : AllowUpgrade(t)
    \/ \E t \in Threads, e \in FnErrs \cup {Nil} : Record(t, e)
    \/ Tick

(***************************************************************************)
(* Token bucket rate limiter                                               *)
(***************************************************************************)
\* math.min
Min(a, b) == IF a < b THEN a ELSE b

\* The key holds a hash that has not expired
Live == bucket # Absent /\ (bucketExpiry = 0 \/ serverTime < bucketExpiry)

\* local tokens = tonumber(bucket[1]) or capacity
Tokens == IF Live THEN bucket[1] ELSE capacity

\* local last_time = tonumber(bucket[2]) or now
LastTime(t) == IF Live THEN bucket[2] ELSE t

\* local new_tokens = math.min(capacity, tokens + delta * rate)
NewTokens(t) == Min(capacity, Tokens + (t - LastTime(t)) * rate)

\* time.Now().Unix() on instance c, whose clock is c - 1 seconds ahead:
\* whole seconds, the fraction is dropped
UnixNow(c) == (serverTime \div SlotsPerSecond) + (c - 1)

\* if new_tokens >= 1
Admitted(t) == NewTokens(t) >= 1

\* HMSET key tokens ... last_time now, on either branch
StoredAfter(t) == <<IF Admitted(t) THEN NewTokens(t) - 1 ELSE NewTokens(t), t>>

\* EXPIRE key 3600 on the admitting branch only
ExpiryAfter(t) ==
    IF Admitted(t) THEN serverTime + BucketTTL * SlotsPerSecond
    ELSE IF Live THEN bucketExpiry ELSE 0

\* The call continues the run of calls that carry the stored last_time
SameRun(t) == Live /\ t = bucket[2]

\* Whole tokens at the start of the run the call belongs to
WinTokensAfter(t) == IF SameRun(t) THEN winTokens ELSE NewTokens(t)

\* Calls admitted so far in the run the call belongs to
WinAdmittedAfter(t) ==
    (IF SameRun(t) THEN winAdmitted ELSE 0) + (IF Admitted(t) THEN 1 ELSE 0)

\* (bool, error) returned by Allow when Eval succeeded
AllowResult(t) == IF Admitted(t) THEN "allowed" ELSE "denied"

\* NewTokenBucket(key, capacity, rate)
NewTokenBucket(cap, r) ==
    /\ capacity = 0
    /\ capacity' = cap
    /\ rate' = r
    /\ UNCHANGED <<bucket, bucketExpiry, burstLog, serverTime, apc, anow, aret,
                   evalErr, allows, bucketTicks, winTokens, winAdmitted>>
    /\ UNCHANGED <<idemVars, faultVars, sagaVars, cbVars, cronVars>>

\* Allow is entered: now := time.Now().Unix()
AllowNow(c) ==
    /\ capacity # 0
    /\ apc[c] = "idle"
    /\ allows < MaxAllows
    /\ allows' = allows + 1
    /\ anow' = [anow EXCEPT ![c] = UnixNow(c)]
    /\ apc' = [apc EXCEPT ![c] = "eval"]
    /\ aret' = [aret EXCEPT ![c] = "none"]
    /\ evalErr' = [evalErr EXCEPT ![c] = "none"]
    /\ UNCHANGED <<capacity, rate, bucket, bucketExpiry, burstLog, serverTime,
                   bucketTicks, winTokens, winAdmitted>>
    /\ UNCHANGED <<idemVars, faultVars, sagaVars, cbVars, cronVars>>

\* Variant of AllowEval whose script admits without taking a token
AllowEvalNoConsume(c) ==
    /\ apc[c] = "eval"
    /\ LET t == anow[c]
           admit == NewTokens(t) >= 1
           sameRun == Live /\ t = bucket[2]
       IN /\ bucket' = <<NewTokens(t), t>>
          /\ bucketExpiry' = IF admit THEN serverTime + BucketTTL * SlotsPerSecond
                             ELSE IF Live THEN bucketExpiry ELSE 0
          /\ aret' = [aret EXCEPT ![c] =
                         IF admit THEN "allowed" ELSE "denied"]
          /\ evalErr' = [evalErr EXCEPT ![c] = Nil]
          /\ winTokens' = IF sameRun THEN winTokens ELSE NewTokens(t)
          /\ winAdmitted' = (IF sameRun THEN winAdmitted ELSE 0)
                            + (IF admit THEN 1 ELSE 0)
    /\ apc' = [apc EXCEPT ![c] = "idle"]
    /\ UNCHANGED <<capacity, rate, burstLog, serverTime, anow, allows,
                   bucketTicks>>
    /\ UNCHANGED <<idemVars, faultVars, sagaVars, cbVars, cronVars>>

\* Variant of AllowEval whose denying branch leaves last_time as it was
AllowEvalDeniedKeepsTime(c) ==
    /\ apc[c] = "eval"
    /\ bucket' = IF Admitted(anow[c]) THEN StoredAfter(anow[c])
                 ELSE <<NewTokens(anow[c]), LastTime(anow[c])>>
    /\ bucketExpiry' = ExpiryAfter(anow[c])
    /\ aret' = [aret EXCEPT ![c] = AllowResult(anow[c])]
    /\ evalErr' = [evalErr EXCEPT ![c] = Nil]
    /\ winTokens' = WinTokensAfter(anow[c])
    /\ winAdmitted' = WinAdmittedAfter(anow[c])
    /\ apc' = [apc EXCEPT ![c] = "idle"]
    /\ UNCHANGED <<capacity, rate, burstLog, serverTime, anow, allows,
                   bucketTicks>>
    /\ UNCHANGED <<idemVars, faultVars, sagaVars, cbVars, cronVars>>

\* Redis runs the script as one operation, and Allow returns result == 1
AllowEval(c) ==
    /\ apc[c] = "eval"
    /\ bucket' = StoredAfter(anow[c])
    /\ bucketExpiry' = ExpiryAfter(anow[c])
    /\ aret' = [aret EXCEPT ![c] = AllowResult(anow[c])]
    /\ evalErr' = [evalErr EXCEPT ![c] = Nil]
    /\ winTokens' = WinTokensAfter(anow[c])
    /\ winAdmitted' = WinAdmittedAfter(anow[c])
    /\ apc' = [apc EXCEPT ![c] = "idle"]
    /\ UNCHANGED <<capacity, rate, burstLog, serverTime, anow, allows,
                   bucketTicks>>
    /\ UNCHANGED <<idemVars, faultVars, sagaVars, cbVars, cronVars>>

\* time passes
BucketTick(d) ==
    /\ bucketTicks < MaxBucketTicks
    /\ bucketTicks' = bucketTicks + 1
    /\ serverTime' = serverTime + d
    /\ UNCHANGED <<capacity, rate, bucket, bucketExpiry, burstLog, apc, anow,
                   aret, evalErr, allows, winTokens, winAdmitted>>
    /\ UNCHANGED <<idemVars, faultVars, sagaVars, cbVars, cronVars>>

\* A whole Allow call of instance 1 while no other call is under way:
\* now := time.Now().Unix(), the script, the return
BurstAllow ==
    /\ capacity # 0
    /\ \A c \in Instances : apc[c] = "idle"
    /\ allows < MaxAllows
    /\ allows' = allows + 1
    /\ anow' = [anow EXCEPT ![1] = UnixNow(1)]
    /\ bucket' = StoredAfter(UnixNow(1))
    /\ bucketExpiry' = ExpiryAfter(UnixNow(1))
    /\ aret' = [aret EXCEPT ![1] = AllowResult(UnixNow(1))]
    /\ evalErr' = [evalErr EXCEPT ![1] = Nil]
    /\ winTokens' = WinTokensAfter(UnixNow(1))
    /\ winAdmitted' = WinAdmittedAfter(UnixNow(1))
    /\ burstLog' = Append(burstLog, <<serverTime, AllowResult(UnixNow(1))>>)
    /\ UNCHANGED <<capacity, rate, serverTime, apc, bucketTicks>>
    /\ UNCHANGED <<idemVars, faultVars, sagaVars, cbVars, cronVars>>

\* Variant of BurstAllowFails in which Allow returns (false, nil)
BurstAllowFailsAsDenial(applied) ==
    /\ capacity # 0
    /\ \A c \in Instances : apc[c] = "idle"
    /\ allows < MaxAllows
    /\ allows' = allows + 1
    /\ anow' = [anow EXCEPT ![1] = UnixNow(1)]
    /\ evalErr' = [evalErr EXCEPT ![1] = StoreErr]
    /\ aret' = [aret EXCEPT ![1] = "denied"]
    /\ burstLog' = Append(burstLog, <<serverTime, "denied">>)
    /\ IF applied
         THEN /\ bucket' = StoredAfter(UnixNow(1))
              /\ bucketExpiry' = ExpiryAfter(UnixNow(1))
              /\ winTokens' = WinTokensAfter(UnixNow(1))
              /\ winAdmitted' = WinAdmittedAfter(UnixNow(1))
         ELSE UNCHANGED <<bucket, bucketExpiry, winTokens, winAdmitted>>
    /\ UNCHANGED <<capacity, rate, serverTime, apc, bucketTicks>>
    /\ UNCHANGED <<idemVars, faultVars, sagaVars, cbVars, cronVars>>

\* A whole Allow call of instance 1 whose Eval returns an error, whether
\* Redis ran the script (the reply was lost) or not: Allow returns
\* (false, err)
BurstAllowFails(applied) ==
    /\ capacity # 0
    /\ \A c \in Instances : apc[c] = "idle"
    /\ allows < MaxAllows
    /\ allows' = allows + 1
    /\ anow' = [anow EXCEPT ![1] = UnixNow(1)]
    /\ evalErr' = [evalErr EXCEPT ![1] = StoreErr]
    /\ aret' = [aret EXCEPT ![1] = "error"]
    /\ burstLog' = Append(burstLog, <<serverTime, "error">>)
    /\ IF applied
         THEN /\ bucket' = StoredAfter(UnixNow(1))
              /\ bucketExpiry' = ExpiryAfter(UnixNow(1))
              /\ winTokens' = WinTokensAfter(UnixNow(1))
              /\ winAdmitted' = WinAdmittedAfter(UnixNow(1))
         ELSE UNCHANGED <<bucket, bucketExpiry, winTokens, winAdmitted>>
    /\ UNCHANGED <<capacity, rate, serverTime, apc, bucketTicks>>
    /\ UNCHANGED <<idemVars, faultVars, sagaVars, cbVars, cronVars>>

TBNext ==
    \/ \E cap \in Capacities, r \in Rates : NewTokenBucket(cap, r)
    \/ \E c \in Instances : AllowNow(c)
    \/ \E c \in Instances : AllowEval(c)
    \/ \E d \in BucketSteps : BucketTick(d)

(***************************************************************************)
(* Cron service: executeJob under the lock "cron:lock:" + jobName.  Each   *)
(* run is one invocation of executeJob by the scheduler of some instance.  *)
(***************************************************************************)
\* c.AddFunc(jobSpec, func() { executeJob(jobName) }): the schedule fires
Trigger(x, name) ==
    /\ jobPc[x] = "idle"
    /\ \A y \in Runs : y < x => jobPc[y] # "idle"
    /\ jobPc' = [jobPc EXCEPT ![x] = "lock"]
    /\ jobName' = [jobName EXCEPT ![x] = name]
    /\ UNCHANGED <<cronStore, cronNow, cronTicks>>
    /\ UNCHANGED <<idemVars, faultVars, sagaVars, cbVars, tbVars>>

\* cache.Lock(ctx, lockKey, 5*time.Minute); if !locked the run is skipped
JobLock(x) ==
    /\ jobPc[x] = "lock"
    /\ IF CacheLockOk(cronStore, cronNow, cronLockKey(jobName[x]))
         THEN /\ cronStore' = CacheLock(cronStore, cronNow,
                                        cronLockKey(jobName[x]), CronLockTTL)
              /\ jobPc' = [jobPc EXCEPT ![x] = "body"]
         ELSE /\ jobPc' = [jobPc EXCEPT ![x] = "skipped"]
              /\ UNCHANGED cronStore
    /\ UNCHANGED <<jobName, cronNow, cronTicks>>
    /\ UNCHANGED <<idemVars, faultVars, sagaVars, cbVars, tbVars>>

\* The switch on jobName ran the job and returned
JobBody(x) ==
    /\ jobPc[x] = "body"
    /\ jobPc' = [jobPc EXCEPT ![x] = "unlock"]
    /\ UNCHANGED <<jobName, cronStore, cronNow, cronTicks>>
    /\ UNCHANGED <<idemVars, faultVars, sagaVars, cbVars, tbVars>>

\* The deferred cache.Unlock(ctx, lockKey)
JobUnlock(x) ==
    /\ jobPc[x] = "unlock"
    /\ cronStore' = CacheUnlock(cronStore, cronLockKey(jobName[x]))
    /\ jobPc' = [jobPc EXCEPT ![x] = "done"]
    /\ UNCHANGED <<jobName, cronNow, cronTicks>>
    /\ UNCHANGED <<idemVars, faultVars, sagaVars, cbVars, tbVars>>

\* Time passes
CronTick(d) ==
    /\ cronTicks < MaxCronTicks
    /\ cronNow' = cronNow + d
    /\ cronTicks' = cronTicks + 1
    /\ UNCHANGED <<jobPc, jobName, cronStore>>
    /\ UNCHANGED <<idemVars, faultVars, sagaVars, cbVars, tbVars>>

CronNext ==
    \/ \E x \in Runs, name \in JobNames : Trigger(x, name)
    \/ \E x \in Runs : JobLock(x)
    \/ \E x \in Runs : JobBody(x)
    \/ \E x \in Runs : JobUnlock(x)
    \/ \E d \in CronSteps : CronTick(d)

(***************************************************************************)
(* Specifications                                                          *)
(***************************************************************************)
SpecIdem == Init /\ [][IdemNext]_vars

SpecIdemCrash == Init /\ [][IdemCrashNext]_vars

SpecIdemStore == Init /\ [][IdemStoreNext]_vars

SpecCron == Init /\ [][CronNext]_vars

SpecSaga == Init /\ [][SagaNext]_vars

TransferNext ==
    \/ \E from \in Accounts, to \in Accounts, amt \in Amounts :
          Transfer(from, to, amt)
    \/ \E e \in DoErrs \cup {Nil} : DoStep(e)
    \/ ExecuteReturnNil
    \/ \E e \in CompErrs \cup {Nil} : CompensateStep(e)
    \/ ExecuteReturnErr

SpecTransfer == Init /\ [][TransferNext]_vars

SpecCB == Init /\ [][CBNext]_vars

\* Goroutines are scheduled, the mutex is granted, fn returns, time passes
\* and callers keep calling as long as the bounds leave room
CBFairness ==
    /\ WF_vars(Tick)
    /\ \A t \in Threads :
         /\ WF_vars(CallAllow(t))
         /\ WF_vars(AllowUpgrade(t))
         /\ WF_vars(\E e \in FnErrs \cup {Nil} : Record(t, e))

SpecCBLive == Init /\ [][CBNext]_vars /\ CBFairness

SpecTB == Init /\ [][TBNext]_vars

BurstNext ==
    \/ \E cap \in Capacities, r \in Rates : NewTokenBucket(cap, r)
    \/ BurstAllow
    \/ \E d \in BucketSteps : BucketTick(d)

SpecBurst == Init /\ [][BurstNext]_vars

\* The lone sequential caller on a bucket that refills slowly or not at all
BurstSlowNext ==
    \/ \E cap \in Capacities, r \in SlowRates : NewTokenBucket(cap, r)
    \/ BurstAllow
    \/ \E d \in BucketSteps : BucketTick(d)

SpecBurstSlow == Init /\ [][BurstSlowNext]_vars

BurstStoreNext ==
    \/ \E cap \in Capacities, r \in Rates : NewTokenBucket(cap, r)
    \/ BurstAllow
    \/ \E applied \in BOOLEAN : BurstAllowFails(applied)
    \/ \E d \in BucketSteps : BucketTick(d)

SpecBurstStore == Init /\ [][BurstStoreNext]_vars

(***************************************************************************)
(* Idempotency guard: properties                                           *)
(***************************************************************************)
\* The request holds the lock it acquired and has not yet issued its Unlock
Holding(r) == pc[r] \in {"running", "set", "unlock"}

\* A guarded request with key k is between its arrival and its return
InFlight(k) == \E r \in Requests : ikey[r] = k /\ pc[r] \notin {"new", "done"}

\* The guarded handler of r returned a non-2xx status and r has returned
FailedReturned(r) == pc[r] = "done" /\ hstatus[r] # 0 /\ ~Is2xx(hstatus[r])

\* The guarded handler of r returned a 2xx status and r has returned
SucceededReturned(r) == pc[r] = "done" /\ Is2xx(hstatus[r])

\* No guarded handler has returned 2xx for key k
NoSuccess(k) == \A r \in Requests : ikey[r] = k => ~Is2xx(hstatus[r])

\* C1: once the completion record of a key is written (and present), no
\* request with that key enters the handler -- also not a request that passed
\* the completion-record lookup earlier and acquires the lock afterwards.
C1_NoInvokeOnceCompleted ==
    [][\A r \in Requests :
          (pc[r] = "lock" /\ pc'[r] = "running")
            => CacheExists(store, now, redisKey(ikey[r])) = 0]_vars

\* C2: when the handler of one request with a key is running when a second
\* request with that key arrives, and is still running, however long it
\* runs, when the second reaches the lock, the second is answered 429 and
\* does not enter the handler.
C2_SecondGetsConflict ==
    [][\A r \in Requests :
          (/\ pc[r] = "lock"
           /\ pc'[r] # "lock"
           /\ \E q \in Requests :
                 /\ q # r
                 /\ ikey[q] = ikey[r]
                 /\ q \in seenRunning[r]
                 /\ pc[q] = "running")
            => (pc'[r] = "done" /\ resp'[r] = StatusTooManyRequests)]_vars

C4_RetryAfterFailure ==
    [][\A r \in Requests :
          /\ (/\ pc[r] = "new"
              /\ pc'[r] # "new"
              /\ ikey'[r] \in Keys
              /\ \E q \in Requests : FailedReturned(q) /\ ikey[q] = ikey'[r]
              /\ ~InFlight(ikey'[r])
              /\ NoSuccess(ikey'[r]))
               => (/\ pc'[r] = "lock"
                   /\ CacheLockOk(store', now', lockKey(ikey'[r])))
          /\ (/\ pc[r] = "lock"
              /\ pc'[r] # "lock"
              /\ \E q \in Requests :
                    /\ q \in seenDone[r]
                    /\ FailedReturned(q)
                    /\ ikey[q] = ikey[r]
              /\ \A q \in Requests \ {r} : ikey[q] = ikey[r] => pc[q] = "done"
              /\ NoSuccess(ikey[r]))
               => pc'[r] = "running"]_vars

\* C4 witness: a retry that arrived after the failed request returned is
\* inside the handler
C4_Witness ==
    \E r, q \in Requests :
        /\ q \in seenDone[r]
        /\ FailedReturned(q)
        /\ ikey[q] = ikey[r]
        /\ pc[r] = "running"

\* C5: for every key, at every instant at most one request is between its
\* successful Lock and its own Unlock, under every interleaving of requests,
\* lock expiry and Unlock calls.
C5_AtMostOneHolder ==
    \A r, q \in Requests :
        (r # q /\ Holding(r) /\ Holding(q)) => ikey[r] # ikey[q]

(***************************************************************************)
(* Saga coordinator: properties                                            *)
(***************************************************************************)
\* A Do of the current Execute call has failed
DoFailed == Len(doLog) > 0 /\ doLog[Len(doLog)].err # Nil

\* The current Execute call has returned an error
ReturnedErr == sagaPc = "returned" /\ IsError(result)

\* C6: within one Execute call the Do of the steps are invoked one at a time
\* in append order, each once, and after the Do of step k has failed no
\* further Do is invoked: the invocations are those of steps 0..k.
C6_ForwardOrderStopsAtFailure ==
    /\ \A n \in 1..Len(doLog) :
          /\ doLog[n].step = n - 1
          /\ n < Len(doLog) => doLog[n].err = Nil
    /\ (sagaPc = "compensating" \/ ReturnedErr) =>
           (DoFailed /\ Len(doLog) = i + 1)

\* C6 witness: step 1 failed after step 0 succeeded, a later step exists and
\* Execute has returned
C6_Witness ==
    /\ ReturnedErr
    /\ Len(doLog) = 2
    /\ Len(ranged) > 2

\* C7: in a Saga executed once in which the Do of step k fails, the
\* compensations invoked are those of steps k-1, k-2, ..., 0 in that order,
\* each once; the compensation of step k or of a step that did not run is
\* never invoked.
C7_ReverseCompensation ==
    (executes = 1 /\ DoFailed) =>
        LET k == Len(doLog) - 1
        IN /\ Len(compLog) <= k
           /\ \A m \in 1..Len(compLog) : compLog[m] = k - m
           /\ ReturnedErr => Len(compLog) = k

\* C7 witness: step 2 failed and steps 1 and 0 were compensated
C7_Witness ==
    /\ executes = 1
    /\ ReturnedErr
    /\ Len(doLog) = 3
    /\ Len(compLog) = 2

\* C8: Execute returns nil exactly when every Do succeeded, and then every
\* step ran and no compensation was invoked; with zero steps it returns nil
\* with no Do and no compensation invoked.
C8_NilIffAllSucceeded ==
    (sagaPc = "returned") =>
        /\ (result = ReturnedNil) <=>
               (\A n \in 1..Len(doLog) : doLog[n].err = Nil)
        /\ result = ReturnedNil =>
               (Len(doLog) = Len(ranged) /\ compLog = <<>>)
        /\ Len(ranged) = 0 =>
               (result = ReturnedNil /\ doLog = <<>> /\ compLog = <<>>)

\* C8 witness: a Saga of at least two steps returned nil
C8_Witness ==
    /\ sagaPc = "returned"
    /\ result = ReturnedNil
    /\ Len(doLog) >= 2

\* C9: in a Saga executed once, when the rollback is over every step whose Do
\* succeeded has had its compensation invoked exactly once, whichever
\* compensations failed.
C9_CompensationGoesOn ==
    (executes = 1 /\ ReturnedErr) =>
        \A n \in 1..Len(doLog) :
            doLog[n].err = Nil =>
                Cardinality({m \in 1..Len(compLog) :
                                compLog[m] = doLog[n].step}) = 1

\* C9 witness: the first compensation failed and a later one was still made
C9_Witness ==
    /\ executes = 1
    /\ ReturnedErr
    /\ Len(compLog) >= 2
    /\ \E f \in printed : f.step = compLog[1]

\* C10: when a Do fails and compensations fail too, the error Execute returns
\* carries every compensation failure beside the Do error.
C10_ReturnCarriesCompensationErrors ==
    ReturnedErr =>
        \A f \in printed : f.err \in ErrorChain(result)

\* A Transfer between two different accounts has returned after its credit
\* step failed
CreditFailedReturned ==
    /\ transfers > 0
    /\ fromAccount # toAccount
    /\ ReturnedErr
    /\ Len(doLog) = 2
    /\ doLog[2].err # Nil

CallOver(t) == tpc[t] = "idle" /\ allowed[t] # "none"

\* C12: Call invokes fn exactly when allow() returned true; a refused call
\* returns ErrCircuitOpen without invoking fn, and an admitted call returns
\* what fn returned.
C12_CallInvokesIffAllowed ==
    \A t \in Threads :
        /\ tpc[t] = "fn" => allowed[t] = "yes"
        /\ CallOver(t) =>
             /\ invoked[t] <=> allowed[t] = "yes"
             /\ allowed[t] = "no" => callRet[t] = ErrCircuitOpen
             /\ allowed[t] = "yes" => callRet[t] = fnErr[t]

\* C12 witness: one call was refused and another returned fn's error
C12_Witness ==
    \E t, u \in Threads :
        /\ CallOver(t) /\ allowed[t] = "no" /\ callRet[t] = ErrCircuitOpen
        /\ CallOver(u) /\ invoked[u] /\ callRet[u] \in FnErrs

\* The step is goroutine t's fn returning and record() running
Recording(t) == tpc[t] = "fn" /\ tpc'[t] = "idle"

\* C13: a Closed breaker opens exactly when the failureThreshold-th failure
\* in a row is recorded, not earlier, and then sets openTime to the time of
\* that failure; a success recorded while Closed resets failureCount to 0.
C13_OpensAtThreshold ==
    [][/\ state' = StateClosed => streak' < failureThreshold'
       /\ \A t \in Threads :
            (Recording(t) /\ state = StateClosed) =>
                IF callRet'[t] = Nil
                  THEN failureCount' = 0 /\ state' = StateClosed
                  ELSE /\ state' = StateOpen <=> streak' = failureThreshold
                       /\ state' = StateOpen => openTime' = clock
                       /\ state' \in {StateClosed, StateOpen}]_vars

\* C13 witness: a breaker with threshold 2 opened from Closed at a time
\* later than its construction
C13_Witness ==
    /\ failureThreshold = 2
    /\ state = StateOpen
    /\ tripped[1] = StateClosed
    /\ streak = 2
    /\ openTime = clock
    /\ clock > 0

\* The step is the entry of a Call
Entering == calls' = calls + 1

\* C14: while Open, a Call made when the time since openTime is below the
\* timeout is refused; a Call made when that time is equal to or greater
\* than the timeout is admitted, and the state is HalfOpen before its fn is
\* invoked.
C14_AdmittedOnceTimeoutElapsed ==
    [][/\ (Entering /\ state = StateOpen) =>
            IF clock - openTime < timeout
              THEN tpc' = tpc /\ \E t \in Threads : allowed'[t] = "no"
              ELSE \E t \in Threads : tpc'[t] = "upgrade"
       /\ \A t \in Threads :
            (tpc[t] = "upgrade" /\ tpc'[t] = "fn") =>
                state' = StateHalfOpen]_vars

\* C15: a failure recorded while HalfOpen opens the breaker at once and sets
\* openTime to the time of that failure, whatever the number of successes
\* recorded before it.
C15_HalfOpenFailureOpens ==
    [][\A t \in Threads :
          (Recording(t) /\ state = StateHalfOpen /\ callRet'[t] # Nil) =>
              /\ state' = StateOpen
              /\ openTime' = clock]_vars

\* C15 witness: the breaker opened from HalfOpen after one success had been
\* recorded there, later than it had opened before
C15_Witness ==
    /\ state = StateOpen
    /\ tripped = <<StateHalfOpen, 1>>
    /\ openTime = clock
    /\ clock > 1

\* C16: after HalfOpen is entered the breaker closes exactly when 2 successes
\* in a row have been recorded since: one success leaves it HalfOpen and the
\* second closes it.
C16_ClosesAtSecondSuccess ==
    [][/\ state' = StateHalfOpen => hoSuccesses' < SuccessesToClose
       /\ (state = StateHalfOpen /\ state' = StateClosed) =>
              hoSuccesses' = SuccessesToClose]_vars

\* The state changes the breaker is meant to make
Transitions ==
    {<<StateClosed, StateOpen>>, <<StateOpen, StateHalfOpen>>,
     <<StateHalfOpen, StateOpen>>, <<StateHalfOpen, StateClosed>>}

\* C17: under every interleaving of concurrent Calls the state only changes
\* Closed -> Open, Open -> HalfOpen, HalfOpen -> Open or HalfOpen -> Closed;
\* in particular never Closed -> HalfOpen.
C17_OnlyDefinedTransitions ==
    [][(state # "none" /\ state' # state) =>
          <<state, state'>> \in Transitions]_vars

\* C18: the number of calls whose fn is invoked between entering and leaving
\* HalfOpen stays within a fixed limit, here the number of successes
\* that close the breaker, however many callers there are.
C18_HalfOpenProbesLimited ==
    state = StateHalfOpen => probes <= SuccessesToClose

\* C19: among Allow calls that carry the same timestamp and run one after
\* another on the key, the number admitted never exceeds the whole tokens the
\* bucket held when the first of them ran, which is at most capacity.
C19_NoOverAdmission ==
    /\ winTokens <= capacity
    /\ winAdmitted <= (IF winTokens > 0 THEN winTokens ELSE 0)

\* C19 witness: both instances were admitted at one timestamp from a bucket
\* of two tokens, and a third call at that timestamp was refused
C19_Witness ==
    /\ winTokens = 2
    /\ winAdmitted = 2
    /\ Live
    /\ bucket[1] = 0
    /\ \E c \in Instances : aret[c] = "denied"

\* C20: after every Allow call, whatever timestamps the instances supply,
\* the stored token count is between 0 and capacity.
C20_TokensWithinBounds ==
    Live => (0 <= bucket[1] /\ bucket[1] <= capacity)

\* The first k calls of the lone caller came as in the burst scenario:
\* capacity + 1 calls at one instant, the later ones 1/rate seconds after it
BurstTiming(k) ==
    \A m \in 1..k :
        burstLog[m][1] = IF m <= capacity + 1
                           THEN burstLog[1][1]
                           ELSE burstLog[1][1] + (SlotsPerSecond \div rate)

\* What the burst scenario expects of its m-th call
BurstExpected(m) ==
    IF m <= capacity \/ m = capacity + 2 THEN "allowed" ELSE "denied"

\* C21: on a fresh bucket of capacity C and rate R, C immediate calls are
\* admitted and the next is denied; 1/R seconds later exactly one more call
\* is admitted and the one after it is denied.
C21_BurstThenRefill ==
    \A k \in 1..Len(burstLog) :
        (k <= capacity + 3 /\ BurstTiming(k)) =>
            burstLog[k][2] = BurstExpected(k)

\* C22: Allow returns an error exactly when the store call failed; a denial
\* is (false, no error) and comes from a script that ran and returned 0, and
\* a failure of the store is never returned as a denial or an admission.
C22_DenialApartFromStoreFailure ==
    aret[1] # "none" =>
        /\ aret[1] = "error" <=> evalErr[1] = StoreErr
        /\ aret[1] \in {"allowed", "denied"} <=> evalErr[1] = Nil
        /\ aret[1] = burstLog[Len(burstLog)][2]

\* C22 witness: one call was denied by the script and the next failed on the
\* store
C22_Witness ==
    /\ Len(burstLog) >= 2
    /\ burstLog[Len(burstLog) - 1][2] = "denied"
    /\ aret[1] = "error"
    /\ evalErr[1] = StoreErr

\* C23: in the idempotency guard a failure of the store is surfaced as an
\* infrastructure error of its own: after a failed record lookup the request
\* goes no further (it is not taken for "no record"), a failed lock
\* acquisition is not answered with the "in progress" 429, and after a failed
\* record write the request does not end with the handler's own status.
C23_StoreFailureSurfaced ==
    \A r \in Requests :
        /\ "exists" \in storeFailure[r] =>
               /\ pc[r] \notin {"lock", "running", "set", "unlock"}
               /\ hstatus[r] = 0
        /\ "lock" \in storeFailure[r] => resp[r] # StatusTooManyRequests
        /\ ("set" \in storeFailure[r] /\ pc[r] = "done") =>
               resp[r] # hstatus[r]

\* The lock of key k was left behind by a crashed holder and has lapsed
OrphanLapsed(k) ==
    /\ \E q \in Requests : pc[q] = "crashed" /\ ikey[q] = k
    /\ ~(store[lockKey(k)] > now)

\* C24: a lock left behind by a crashed holder heals by itself: whatever
\* happens, every lock entry lapses at most LockTTL after the current
\* instant, and a request that asks for the lock of a crashed holder once it
\* has lapsed acquires it and enters the handler.
C24_CrashedLockSelfHeals ==
    [][/\ \A k \in Keys : store'[lockKey(k)] <= now' + LockTTL
       /\ \A r \in Requests :
            (pc[r] = "lock" /\ pc'[r] # "lock" /\ OrphanLapsed(ikey[r])) =>
                /\ pc'[r] = "running"
                /\ store'[lockKey(ikey[r])] = now + LockTTL]_vars

\* A holder crashed before any record was written, the TTL went by, and a
\* later request with the same key is inside the handler under a new lock
C24_Witness ==
    \E q, r \in Requests :
        /\ pc[q] = "crashed"
        /\ pc[r] = "running"
        /\ ikey[r] = ikey[q]
        /\ store[redisKey(ikey[q])] = 0
        /\ now >= LockTTL
        /\ store[lockKey(ikey[r])] = now + LockTTL

\* Runs that are inside the job body of the job called name
InBody(name) == {x \in Runs : jobPc[x] = "body" /\ jobName[x] = name}

\* C25: for every job name at most one executeJob is running the job body
\* at any instant.
C25_OneBodyPerJob == \A name \in JobNames : Cardinality(InBody(name)) <= 1

\* C26: right after each state transition of the breaker (Closed -> Open,
\* Open -> HalfOpen, HalfOpen -> Open, HalfOpen -> Closed) failureCount and
\* successCount are both 0.
C26_CountsResetOnTransition ==
    [][(<<state, state'>> \in Transitions) =>
          (failureCount' = 0 /\ successCount' = 0)]_vars

\* Request r still holds the lock it acquired: the key is live and no other
\* request holds a lock of the same key
OwnLockLive(r) ==
    /\ store[lockKey(ikey[r])] > now
    /\ \A q \in Requests \ {r} : ~(Holding(q) /\ ikey[q] = ikey[r])

C28_NoLockLeftBehind ==
    \A k \in Keys :
        store[lockKey(k)] > now =>
            /\ store[lockKey(k)] <= now + LockTTL
            /\ \E r \in Requests :
                 /\ ikey[r] = k
                 /\ pc[r] \in {"running", "set", "unlock", "crashed"}

\* A request whose handler failed has returned and its lock is gone, and the
\* lock of a crashed request lapsed by its TTL
C28_Witness ==
    \E q, r \in Requests :
        /\ pc[r] = "done"
        /\ ikey[r] # ""
        /\ hstatus[r] # 0 /\ ~Is2xx(hstatus[r])
        /\ store[lockKey(ikey[r])] = 0
        /\ pc[q] = "crashed"
        /\ ikey[q] # ikey[r]
        /\ store[lockKey(ikey[q])] > 0
        /\ ~(store[lockKey(ikey[q])] > now)

\* The step is the script of instance c's Allow running
Evaluating(c) == apc[c] = "eval" /\ apc'[c] = "idle"

\* C29: for a stored state (tokens, last_time) and a now >= last_time, one
\* Allow call computes newTokens = min(capacity, tokens + (now - last_time) *
\* rate), stores newTokens - 1 and returns allowed if newTokens >= 1, stores
\* newTokens and returns denied otherwise, and stores last_time = now either
\* way; a key with no stored state counts as a full bucket with last_time =
\* now.
C29_RefillThenConsume ==
    [][\A c \in Instances :
          (Evaluating(c) /\ (Live => anow[c] >= bucket[2])) =>
              LET tokens == IF Live THEN bucket[1] ELSE capacity
                  elapsed == IF Live THEN anow[c] - bucket[2] ELSE 0
                  refilled == tokens + elapsed * rate
                  newTokens == IF refilled < capacity THEN refilled
                               ELSE capacity
              IN /\ bucket'[2] = anow[c]
                 /\ IF newTokens >= 1
                      THEN /\ bucket'[1] = newTokens - 1
                           /\ aret'[c] = "allowed"
                      ELSE /\ bucket'[1] = newTokens
                           /\ aret'[c] = "denied"]_vars

\* C29 witness: a bucket of capacity 2 that had been emptied was refilled
\* to one token by a later call, which was admitted and stored its now
C29_Witness ==
    \E c \in Instances :
        /\ apc[c] = "idle"
        /\ aret[c] = "allowed"
        /\ capacity = 2
        /\ Live
        /\ bucket = <<0, anow[c]>>
        /\ winTokens = 1
        /\ winAdmitted = 1

\* C30: when a Do fails, the error Execute returns carries the name of the
\* failing step and wraps the error that step's Do returned, and no other
\* error.
C30_ErrorNamesFailingStep ==
    ReturnedErr =>
        /\ DoFailed
        /\ result[2] = steps[doLog[Len(doLog)].step + 1]
        /\ ErrorChain(result) = {doLog[Len(doLog)].err}

\* C30 witness: the second step, named unlike the first, failed, and the
\* compensation of the first failed too
C30_Witness ==
    /\ ReturnedErr
    /\ Len(doLog) = 2
    /\ steps[1] # steps[2]
    /\ result[2] = steps[2]
    /\ printed # {}

\* C31: under every interleaving the breaker enters HalfOpen only from Open
\* and only when at least timeout has elapsed since the openTime stored at
\* that moment; so a caller that saw an expired Open state and was delayed
\* while the breaker re-opened does not move it to HalfOpen early.
C31_HalfOpenOnlyFromExpiredOpen ==
    [][(state # "none" /\ state # StateHalfOpen /\ state' = StateHalfOpen) =>
          (state = StateOpen /\ clock - openTime >= timeout)]_vars

\* Goroutine t's fn returns nil and record(nil) runs in this step
RecordingSuccess(t) ==
    tpc[t] = "fn" /\ tpc'[t] = "idle" /\ fnErr'[t] = Nil

\* C32: only the result of a call admitted while the breaker was HalfOpen
\* counts toward closing it: a success of a call that was admitted while the
\* breaker was Closed and is recorded when the breaker is HalfOpen neither
\* increments successCount nor closes the breaker.
C32_OnlyProbesCountTowardClose ==
    [][\A t \in Threads :
         (/\ RecordingSuccess(t)
          /\ state = StateHalfOpen
          /\ admittedIn[t] = StateClosed) =>
             /\ successCount' = successCount
             /\ state' = StateHalfOpen]_vars

\* C33: whenever the breaker is Closed, failureCount is below
\* failureThreshold, under every interleaving of calls and results.
C33_ClosedBelowThreshold ==
    state = StateClosed => failureCount < failureThreshold

\* The breaker opened, recovered through HalfOpen and is Closed again, while
\* another call is still in flight
C33_Witness ==
    /\ state = StateClosed
    /\ tripped[1] # "none"
    /\ successCount >= SuccessesToClose
    /\ failureCount = 0
    /\ \E t \in Threads : tpc[t] = "fn"

\* Goroutine t's fn returns an error and record(err) runs in this step
RecordingFailure(t) ==
    tpc[t] = "fn" /\ tpc'[t] = "idle" /\ fnErr'[t] # Nil

\* C34: the breaker does not stay Open forever.  While calls keep arriving:
\* an Open breaker whose timeout has elapsed becomes HalfOpen; a HalfOpen
\* breaker becomes Closed unless an fn fails and re-opens it; and nothing but
\* a failing fn opens the breaker, so once every fn succeeds it stays out of
\* Open and every call is admitted.
C34_NeverOpenForever ==
    /\ (state = StateOpen /\ Expired /\ calls < MaxCalls)
          ~> (state = StateHalfOpen)
    /\ (state = StateHalfOpen /\ calls + SuccessesToClose <= MaxCalls)
          ~> (state = StateClosed \/ state = StateOpen)
    /\ [][(state # StateOpen /\ state' = StateOpen) =>
             \E t \in Threads : RecordingFailure(t)]_vars

\* The breaker opened, was probed after its timeout and closed again, and
\* calls can still arrive
C34_Witness ==
    /\ state = StateClosed
    /\ tripped[1] = StateClosed
    /\ hoSuccesses = SuccessesToClose
    /\ clock - openTime > timeout
    /\ calls < MaxCalls

\* The timestamp the m-th call of the lone caller passed as now
Stamp(m) == burstLog[m][1] \div SlotsPerSecond

\* Calls admitted among the a-th to the b-th call of the lone caller
AdmittedBetween(a, b) ==
    Cardinality({m \in a..b : burstLog[m][2] = "allowed"})

\* C35: for callers whose timestamps do not decrease, the number of calls
\* admitted between any two timestamps t0 <= t1 is at most
\* capacity + rate * (t1 - t0), also when the key expired in between and the
\* bucket started again full.
C35_AdmissionsBounded ==
    \A a, b \in 1..Len(burstLog) :
        a <= b =>
            AdmittedBetween(a, b) <= capacity + rate * (Stamp(b) - Stamp(a))

\* C36: with several instances each passing its own clock reading as now,
\* the stored last_time never decreases and no Allow call lowers the stored
\* token count by more than 1.
C36_MonotoneLastTimeUnitStep ==
    [][(Live /\ \E c \in Instances : Evaluating(c)) =>
          /\ bucket'[2] >= bucket[2]
          /\ bucket'[1] >= bucket[1] - 1]_vars

\* C37: every compensation an Execute call invokes belongs to a step whose Do
\* succeeded during that same call, also when Execute is called again on the
\* same Saga.
C37_CompensatesOwnStepsOnly ==
    \A m \in 1..Len(compLog) :
        \E n \in 1..Len(doLog) :
            doLog[n].step = compLog[m] /\ doLog[n].err = Nil

\* C38: a completion record of a key exists only if some request with that
\* key held the lock, entered the handler and the handler returned 2xx; a
\* request that was rejected or whose handler failed has written no record.
C38_RecordOnlyAfterSuccess ==
    /\ \A k \in Keys :
          store[redisKey(k)] # 0 =>
              \E r \in Requests :
                  /\ ikey[r] = k
                  /\ Is2xx(hstatus[r])
                  /\ pc[r] \in {"unlock", "done"}
                  /\ retainedUntil[r] # 0
    /\ \A r \in Requests :
          retainedUntil[r] # 0 =>
              /\ Is2xx(hstatus[r])
              /\ resp[r] \notin {StatusBadRequest, StatusConflict,
                                 StatusTooManyRequests}

\* One key has a record after a success; the other key, whose request's
\* handler failed, has none
C38_Witness ==
    \E r, q \in Requests :
        /\ ikey[r] \in Keys
        /\ ikey[q] \in Keys
        /\ SucceededReturned(r)
        /\ store[redisKey(ikey[r])] > now
        /\ FailedReturned(q)
        /\ ikey[q] # ikey[r]
        /\ store[redisKey(ikey[q])] = 0

\* Request r is rejected in this step: 400 or 409 on arrival, 429 at the lock
Rejecting(r) ==
    /\ pc[r] \in {"new", "lock"}
    /\ pc'[r] = "done"
    /\ resp'[r] \in {StatusBadRequest, StatusConflict, StatusTooManyRequests}

\* C39: a request the guard rejects leaves the store as it was -- no lock of
\* another request deleted, no completion record written or removed -- and
\* its handler is not invoked.
C39_RejectionLeavesStore ==
    [][\A r \in Requests :
          Rejecting(r) => (store' = store /\ hstatus'[r] = 0)]_vars

\* A request was answered 429 while the holder of the lock is still inside
\* the handler under its live lock
C39_Witness ==
    \E r, q \in Requests :
        /\ pc[r] = "done"
        /\ resp[r] = StatusTooManyRequests
        /\ hstatus[r] = 0
        /\ pc[q] = "running"
        /\ ikey[q] = ikey[r]
        /\ store[lockKey(ikey[q])] > now

====
